---- MODULE Spec2Model ----
(***************************************************************************)
(* The text-driven particle engine of src/components/SimulationCanvas.tsx  *)
(* as a state machine.                                                      *)
(*                                                                          *)
(* Numbers.  The engine computes on IEEE doubles.  The model computes on    *)
(* a fixed-point grid: a length, a velocity or a factor v is the integer    *)
(* v * U, and every product and quotient is rounded to the nearest grid     *)
(* point, as a double operation is rounded to the nearest double.  Time is  *)
(* counted in thirds of a millisecond, so that the frame duration 1000/60   *)
(* ms is the whole number 50.  Math.random() is a value of [0,1) on the     *)
(* same grid, read from a tape the environment picks for each handler run.  *)
(* The clock performance.now() is read modulo ClockSpan, a whole number of  *)
(* wind periods and of frame durations: this keeps every time difference    *)
(* shorter than ClockSpan and the wind's angle.                             *)
(***************************************************************************)
EXTENDS Integers, Sequences, FiniteSets, TLC

\* ------------------------------------------------------------------ bounds

\* Callbacks a run of the shallow specification follows.
MaxFrames == 2
\* Callbacks a run of the deep specification follows.
MaxDeepFrames == 40
\* Engine instances (runs of the effect) a run constructs.
MaxMounts == 2
\* Callbacks a run of the clock specification follows.
MaxClockFrames == 5

\* ------------------------------------------------------- fixed-point numbers

\* Grid points per unit: the resolution of a `number`.
U == 1000
\* Time units per millisecond.
MsUnits == 3

Abs(a) == IF a < 0 THEN -a ELSE a

\* a / b rounded to the nearest integer (b > 0), ties away from zero.
RDiv(a, b) ==
  IF a >= 0 THEN (2 * a + b) \div (2 * b) ELSE -((2 * (-a) + b) \div (2 * b))

\* The double product a * b of two grid numbers.
Mul(a, b) == RDiv(a * b, U)

\* The double quotient a / b of two grid numbers.  A zero divisor gives a
\* non-finite double, which the callers record as a fault; the value 0
\* stands for it here.
Quot(a, b) == IF b = 0 THEN 0 ELSE IF b > 0 THEN RDiv(a * U, b) ELSE -RDiv(a * U, -b)

RECURSIVE SqrtBetween(_, _, _)
\* The largest r in lo..hi with r * r <= n.
SqrtBetween(n, lo, hi) ==
  IF lo >= hi THEN lo
  ELSE LET mid == (lo + hi + 1) \div 2
       IN  IF mid * mid <= n THEN SqrtBetween(n, mid, hi)
           ELSE SqrtBetween(n, lo, mid - 1)

\* Math.sqrt of a whole number n < 2^31, rounded to the nearest integer.
ISqrt(n) ==
  LET r == SqrtBetween(n, 0, 46340)
  IN  IF n - r * r > r THEN r + 1 ELSE r

\* Math.sqrt(dx * dx + dy * dy) for two grid numbers, on the grid.  Long
\* vectors are measured in tens of grid points, which keeps the squares
\* below 2^31 (a double's precision is relative in the same way).
Hypot(dx, dy) ==
  IF Abs(dx) <= 32000 /\ Abs(dy) <= 32000
  THEN ISqrt(dx * dx + dy * dy)
  ELSE 10 * ISqrt(RDiv(dx, 10) * RDiv(dx, 10) + RDiv(dy, 10) * RDiv(dy, 10))

\* Math.sin of t thousandths of a turn, 0 <= t <= 500 (Bhaskara's rational
\* approximation, exact at 0, a quarter and a half turn).
SinHalf(t) ==
  LET q == t * (1000 - 2 * t)
  IN  RDiv(32 * q, RDiv(5000000 - 8 * q, 1000))

\* Math.sin(2 * PI * t / 1000) on the grid, for any whole t.
SinTurn(t) ==
  LET m == t % 1000
  IN  IF m <= 500 THEN SinHalf(m) ELSE -SinHalf(m - 500)

\* Math.cos(2 * PI * t / 1000) on the grid.
CosTurn(t) == SinTurn(t + 250)

\* ---------------------------------------------------------------- constants

\* CONFIG
MAX_VELOCITY == 3 * U
FRICTION == 980
INTERACTION_RADIUS == 100 * U
NEIGHBORS_TO_CHECK == 5
ATTRACTION_STRENGTH == 10
REPULSION_STRENGTH == 20
BOUNDARY_MODE == "wrap"
FPS_TARGET == 60

\* GRAVITY_CONFIG
GRAVITY == 300
BOUNCE_DAMPING == 700
GROUND_FRICTION == 990
AIR_RESISTANCE == 995
FLOOR_OFFSET == 10 * U

\* CHAOS_CONFIG
RANDOM_FORCE_STRENGTH == 150
CENTER_ATTRACTION == 5
WALL_BOUNCE_ENERGY == 1050
CHAOS_FRICTION == 996
CHAOS_MAX_VELOCITY == 5 * U
TURBULENCE_FREQUENCY == 300

\* WEATHER_CONFIG
NUM_VORTICES == 3
VORTEX_STRENGTH == 80
VORTEX_RADIUS == 150 * U
VORTEX_MOVE_SPEED == 500
WIND_STRENGTH == 20
WEATHER_FRICTION == 990
WEATHER_MAX_VELOCITY == 4 * U
\* The wind turns once in 5000 ms.
WindPeriod == 5000 * MsUnits

\* SWARM_CONFIG
SEPARATION_RADIUS == 30 * U
ALIGNMENT_RADIUS == 60 * U
COHESION_RADIUS == 80 * U
SEPARATION_STRENGTH == 50
ALIGNMENT_STRENGTH == 30
COHESION_STRENGTH == 10
RANDOM_NOISE == 50
SWARM_FRICTION == 995
SWARM_MAX_VELOCITY == 3500
SWARM_NEIGHBORS_TO_CHECK == 8

\* const frameDuration = 1000 / CONFIG.FPS_TARGET, in time units.
frameDuration == (1000 * MsUnits) \div FPS_TARGET

Modes == {"fluid", "gravity", "chaos", "weather", "swarm"}

\* --------------------------------------------------------------- Math.random

\* The values of [0,1) a Math.random() call returns, on the grid.
RandVals == <<0, 250, 500, 660, 830, 999, 120>>

\* A tape is the stream of one handler run's Math.random() results: the
\* k-th call site reads RandVals at s + k * d, cyclically.
Tapes == {[s |-> 2, d |-> 0], [s |-> 0, d |-> 6], [s |-> 3, d |-> 1]}

\* A tape whose first draw of a tick is below TURBULENCE_FREQUENCY, and one
\* whose draws are all above it.
BurstTape == [s |-> 0, d |-> 6]
QuietTape == [s |-> 2, d |-> 0]

Rand(tape, k) == RandVals[((tape.s + k * tape.d) % Len(RandVals)) + 1]

\* The call sites of particle i (1-based) are numbered j = 1..9.
Slot(i, j) == (i - 1) * 10 + j

\* The call sites of vortex v are numbered j = 1..6.
VSlot(v, j) == 100 + (v - 1) * 6 + j

\* ------------------------------------------------------------ initParticles

\* The code units String.prototype.trim removes: WhiteSpace and LineTerminator.
WhiteSpaceCodes ==
  {9, 10, 11, 12, 13, 32, 160, 5760, 8232, 8233, 8239, 8287, 12288, 65279}
    \cup (8192..8202)

\* ch.trim().length > 0, for the one-unit string ch.
IsVisible(ch) == ch \notin WhiteSpaceCodes

\* Every character kept, white space too.
Unfiltered(t) == t

RECURSIVE FilterVisible(_)
\* text.split('').filter((ch) => ch.trim().length > 0)
FilterVisible(t) ==
  IF t = <<>> THEN <<>>
  ELSE IF IsVisible(Head(t)) THEN <<Head(t)>> \o FilterVisible(Tail(t))
       ELSE FilterVisible(Tail(t))

\* ch.charCodeAt(0): a character is modelled by its code unit.
CharCodeAt(ch) == ch

Min(a, b) == IF a < b THEN a ELSE b
Max(a, b) == IF a > b THEN a ELSE b

\* (code - 32) / (126 - 32), not limited to [0, 1].
NormUnlimited(code) == RDiv((code - 32) * U, 126 - 32)

\* Math.max(0, Math.min(1, (code - 32) / (126 - 32)))
NormOf(code) == Max(0, Min(U, RDiv((code - 32) * U, 126 - 32)))

\* 0.5 + (1 - norm) * 0.5
MassOf(norm) == 500 + Mul(U - norm, 500)

\* norm * 360
HueOf(norm) == norm * 360

\* The particle initParticles pushes for chars[i].
NewParticle(ch, i, w, h, tape) ==
  LET code  == CharCodeAt(ch)
      norm  == NormOf(code)
      speed == norm * 2
  IN  [ch   |-> ch,
       code |-> code,
       x    |-> Mul(Rand(tape, Slot(i, 1)), w),
       y    |-> Mul(Rand(tape, Slot(i, 2)), h),
       vx   |-> Mul(CosTurn(norm), speed),
       vy   |-> Mul(SinTurn(norm), speed),
       norm |-> norm,
       mass |-> MassOf(norm),
       hue  |-> HueOf(norm)]

\* particlesRef.current after initParticles().
InitParticles(t, w, h, tape) ==
  LET chars == FilterVisible(t)
  IN  [i \in 1..Len(chars) |-> NewParticle(chars[i], i, w, h, tape)]

\* One vortex of the weather mode's construction loop.
NewVortex(v, w, h, tape) ==
  [x        |-> Mul(Rand(tape, VSlot(v, 1)), w),
   y        |-> Mul(Rand(tape, VSlot(v, 2)), h),
   vx       |-> Mul(Rand(tape, VSlot(v, 3)) - 500, VORTEX_MOVE_SPEED),
   vy       |-> Mul(Rand(tape, VSlot(v, 4)) - 500, VORTEX_MOVE_SPEED),
   strength |-> Mul(VORTEX_STRENGTH, 800 + Mul(Rand(tape, VSlot(v, 5)), 400)),
   rotation |-> IF Rand(tape, VSlot(v, 6)) < 500 THEN 1 ELSE -1]

\* const vortices after the construction loop.
InitVortices(mode, w, h, tape) ==
  IF mode = "weather"
  THEN [v \in 1..NUM_VORTICES |-> NewVortex(v, w, h, tape)]
  ELSE <<>>

\* ------------------------------------------------------------ shared steps

\* A velocity left as it is, however long.
Unclamped(vx, vy, max) == [vx |-> vx, vy |-> vy, fault |-> FALSE]

\* "Limit velocity": rescale (vx, vy) to length max when it is longer.
Clamp(vx, vy, max) ==
  LET speedSq == vx * vx + vy * vy
  IN  IF speedSq > max * max
      THEN LET speed == ISqrt(speedSq)
           IN  [vx    |-> Mul(Quot(vx, speed), max),
                vy    |-> Mul(Quot(vy, speed), max),
                fault |-> speed = 0]
      ELSE [vx |-> vx, vy |-> vy, fault |-> FALSE]

\* A coordinate left where the move put it.
Unwrapped(c, extent) == c

\* "Wrap around boundaries" on one axis:
\* if (c < 0) c += extent; if (c > extent) c -= extent.
Wrap(c, extent) ==
  LET a == IF c < 0 THEN c + extent ELSE c
  IN  IF a > extent THEN a - extent ELSE a

\* A coordinate left where the move put it.
LeftOutside(c, extent) == c

\* Math.max(0, Math.min(extent, c))
Into(c, extent) == Max(0, Min(extent, c))

\* Math.floor(Math.random() * particles.length)
NeighborIndex(r, n) == (r * n) \div U

\* Two velocity changes added (p.vx += ..., p.vy += ...), with their faults.
Plus(a, b) == [vx |-> a.vx + b.vx, vy |-> a.vy + b.vy, fault |-> a.fault \/ b.fault]

\* ------------------------------------------------------------- gravity mode

\* A bounce that keeps its velocity, however small.
Unsettled(vy) == vy

\* A bounce that always comes to rest.
Resting(vy) == 0

\* "Stop bouncing if velocity is very small": the bounced vertical velocity.
Settle(vy) == IF Abs(vy) < 500 THEN 0 ELSE vy

\* The gravity branch of the particle loop, for particle p = particles[i].
GravityStep(p, i, w, h, tape) ==
  LET vy1     == p.vy + Mul(GRAVITY, p.mass)
      vx2     == Mul(p.vx, AIR_RESISTANCE)
      vy2     == Mul(vy1, AIR_RESISTANCE)
      x1      == p.x + vx2
      y1      == p.y + vy2
      groundY == h - FLOOR_OFFSET
      hit     == y1 >= groundY
      y2      == IF hit THEN groundY ELSE y1
      vy3     == IF hit THEN Settle(Mul(vy2, -BOUNCE_DAMPING)) ELSE vy2
      vx3     == IF hit THEN Mul(vx2, GROUND_FRICTION) ELSE vx2
      x2      == Wrap(x1, w)
      respawn == y2 < -50 * U
  IN  [p     |-> IF respawn
                 THEN [p EXCEPT !.y  = -10 * U,
                                !.x  = Mul(Rand(tape, Slot(i, 1)), w),
                                !.vx = Mul(Rand(tape, Slot(i, 2)) - 500, 2 * U),
                                !.vy = 0]
                 ELSE [p EXCEPT !.x = x2, !.y = y2, !.vx = vx3, !.vy = vy3],
       mid   |-> [vx |-> vx2, vy |-> vy2],
       hit   |-> hit,
       fault |-> FALSE]

\* --------------------------------------------------------------- chaos mode

\* The division by centerDist, unguarded.
AlwaysPulls(centerDist) == TRUE

\* if (centerDist > 0): the guard of the division by centerDist.
CenterPulls(centerDist) == centerDist > 0

\* A burst that never comes.
NeverTurbulent(tape, i) == FALSE

\* Math.random() < CHAOS_CONFIG.TURBULENCE_FREQUENCY
Turbulent(tape, i) == Rand(tape, Slot(i, 1)) < TURBULENCE_FREQUENCY

\* "Add random turbulence": the velocity a random burst adds to particle i.
Turbulence(i, tape) ==
  LET angle == Rand(tape, Slot(i, 2))
      force == Mul(RANDOM_FORCE_STRENGTH, 500 + Mul(Rand(tape, Slot(i, 3)), 500))
  IN  IF Turbulent(tape, i)
      THEN [vx |-> Mul(CosTurn(angle), force), vy |-> Mul(SinTurn(angle), force),
            fault |-> FALSE]
      ELSE [vx |-> 0, vy |-> 0, fault |-> FALSE]

\* "Weak attraction to center": the velocity it adds to a particle that is
\* (dcx, dcy) from the centre, centerDist away.
CenterPull(dcx, dcy, centerDist) ==
  IF CenterPulls(centerDist)
  THEN [vx    |-> Mul(Quot(dcx, centerDist),
                      Mul(CENTER_ATTRACTION, Quot(centerDist, 100 * U))),
        vy    |-> Mul(Quot(dcy, centerDist),
                      Mul(CENTER_ATTRACTION, Quot(centerDist, 100 * U))),
        fault |-> centerDist = 0]
  ELSE [vx |-> 0, vy |-> 0, fault |-> FALSE]

\* The chaos branch down to "Limit velocity": the velocity particle p is
\* moved by, given what turbulence and the centre add.
ChaosVelocity(p, burst, pull) ==
  LET c == Clamp(Mul(p.vx + burst.vx + pull.vx, CHAOS_FRICTION),
                 Mul(p.vy + burst.vy + pull.vy, CHAOS_FRICTION),
                 CHAOS_MAX_VELOCITY)
  IN  [vx |-> c.vx, vy |-> c.vy, fault |-> c.fault \/ pull.fault]

\* "Update position" and "Bounce off walls with energy gain", for the
\* limited velocity c.
ChaosMoved(p, c, i, w, h, tape) ==
  LET x1  == p.x + c.vx
      y1  == p.y + c.vy
      bx  == x1 < 0 \/ x1 > w
      vx3 == IF bx THEN Mul(c.vx, -WALL_BOUNCE_ENERGY) ELSE c.vx
      vy3 == IF bx THEN c.vy + Mul(Rand(tape, Slot(i, 4)) - 500, 300) ELSE c.vy
      by  == y1 < 0 \/ y1 > h
      vy4 == IF by THEN Mul(vy3, -WALL_BOUNCE_ENERGY) ELSE vy3
      vx4 == IF by THEN vx3 + Mul(Rand(tape, Slot(i, 5)) - 500, 300) ELSE vx3
  IN  [p     |-> [p EXCEPT !.x  = IF bx THEN Into(x1, w) ELSE x1,
                           !.y  = IF by THEN Into(y1, h) ELSE y1,
                           !.vx = vx4, !.vy = vy4],
       mid   |-> [vx |-> c.vx, vy |-> c.vy],
       hit   |-> FALSE,
       fault |-> c.fault]

\* The chaos branch of the particle loop.
ChaosStep(p, i, w, h, tape) ==
  ChaosMoved(p,
             ChaosVelocity(p, Turbulence(i, tape),
                           CenterPull(RDiv(w, 2) - p.x, RDiv(h, 2) - p.y,
                                      Hypot(RDiv(w, 2) - p.x, RDiv(h, 2) - p.y))),
             i, w, h, tape)

\* ------------------------------------------------------------- weather mode

\* A vortex whose bounce loses a tenth of its speed.
VortexAdvanceDamped(v, w, h) ==
  LET x1 == v.x + v.vx
      y1 == v.y + v.vy
      bx == x1 < 0 \/ x1 > w
      by == y1 < 0 \/ y1 > h
  IN  [v EXCEPT !.x  = IF bx THEN Into(x1, w) ELSE x1,
                !.vx = IF bx THEN -Mul(v.vx, 900) ELSE v.vx,
                !.y  = IF by THEN Into(y1, h) ELSE y1,
                !.vy = IF by THEN -Mul(v.vy, 900) ELSE v.vy]

\* "Update vortex positions": one vortex moved by its velocity and bounced.
VortexAdvance(v, w, h) ==
  LET x1 == v.x + v.vx
      y1 == v.y + v.vy
      bx == x1 < 0 \/ x1 > w
      by == y1 < 0 \/ y1 > h
  IN  [v EXCEPT !.x  = IF bx THEN Into(x1, w) ELSE x1,
                !.vx = IF bx THEN -v.vx ELSE v.vx,
                !.y  = IF by THEN Into(y1, h) ELSE y1,
                !.vy = IF by THEN -v.vy ELSE v.vy]

RECURSIVE AdvanceFrom(_, _, _, _)
\* The vortex update loop from vortex k on.
AdvanceFrom(k, vs, w, h) ==
  IF k > Len(vs) THEN vs
  ELSE AdvanceFrom(k + 1, [vs EXCEPT ![k] = VortexAdvance(vs[k], w, h)], w, h)

\* for (const vortex of vortices) { vortex.x += vortex.vx; ... }
AdvanceVortices(vs, w, h) == AdvanceFrom(1, vs, w, h)

\* A vortex that acts at every nonzero distance below its radius.
ActsFromZero(dist) == dist < VORTEX_RADIUS /\ dist > 0

\* if (dist < VORTEX_RADIUS && dist > 1): the vortex acts on the particle.
VortexActs(dist) == dist < VORTEX_RADIUS /\ dist > U

\* The velocity one vortex adds to particle p.  The tangent angle is
\* atan2(dy, dx) + rotation * PI / 2, whose cosine is -rotation * dy / dist
\* and whose sine is rotation * dx / dist.
VortexPush(p, v) ==
  LET dx   == p.x - v.x
      dy   == p.y - v.y
      dist == Hypot(dx, dy)
      forceMagnitude == Mul(v.strength, U - Quot(dist, VORTEX_RADIUS))
  IN  IF VortexActs(dist)
      THEN [vx    |-> Mul(-v.rotation * Quot(dy, dist), forceMagnitude),
            vy    |-> Mul(v.rotation * Quot(dx, dist), forceMagnitude),
            fault |-> dist = 0]
      ELSE [vx |-> 0, vy |-> 0, fault |-> FALSE]

RECURSIVE PushFrom(_, _, _)
\* for (const vortex of vortices) { ... p.vx += ...; p.vy += ... }, from
\* vortex k on: the velocity the vortices add to p.
PushFrom(k, p, vs) ==
  IF k > Len(vs) THEN [vx |-> 0, vy |-> 0, fault |-> FALSE]
  ELSE Plus(VortexPush(p, vs[k]), PushFrom(k + 1, p, vs))

\* (currentTime / 5000) * Math.PI * 2, in thousandths of a turn.
WindTurn(currentTime) == RDiv(currentTime * 1000, WindPeriod)

\* The weather branch of the particle loop; vs are the vortices as the
\* branch finds them, and the vs field of the result as it leaves them.
WeatherStep(p, vs, w, h, currentTime) ==
  LET vs1    == AdvanceVortices(vs, w, h)
      push   == PushFrom(1, p, vs1)
      turn   == WindTurn(currentTime)
      vx1    == p.vx + push.vx + Mul(CosTurn(turn), WIND_STRENGTH)
      vy1    == p.vy + push.vy + Mul(SinTurn(turn), WIND_STRENGTH)
      c      == Clamp(Mul(vx1, WEATHER_FRICTION), Mul(vy1, WEATHER_FRICTION),
                      WEATHER_MAX_VELOCITY)
  IN  [p     |-> [p EXCEPT !.x = Wrap(p.x + c.vx, w), !.y = Wrap(p.y + c.vy, h),
                           !.vx = c.vx, !.vy = c.vy],
       vs    |-> vs1,
       mid   |-> [vx |-> c.vx, vy |-> c.vy],
       hit   |-> FALSE,
       fault |-> c.fault \/ push.fault]

\* --------------------------------------------------------------- fluid mode

\* if (dist < INTERACTION_RADIUS && dist > 0): the neighbour acts.
FluidInteracts(dist) == dist < INTERACTION_RADIUS /\ dist > 0

\* Every pair of characters repels.
AlwaysRepels(absDiff) == -Mul(REPULSION_STRENGTH, RDiv(absDiff * U, 50))

\* "Similar characters attract, different ones repel": the scalar force.
FluidForce(absDiff) ==
  IF absDiff < 10 THEN ATTRACTION_STRENGTH
  ELSE -Mul(REPULSION_STRENGTH, RDiv(absDiff * U, 50))

\* The velocity a neighbour dist away adds to particle p.  The force of one
\* neighbour is a small fraction of a grid point, so the neighbour loop adds
\* the forces up on a grid U times finer, in millionths.
FluidPullOf(p, neighbor, dist) ==
  LET dx       == neighbor.x - p.x
      dy       == neighbor.y - p.y
      force    == FluidForce(Abs(neighbor.code - p.code))
      strength == Quot(RDiv(force * U * U, Max(1, dist + U)), p.mass)
  IN  IF FluidInteracts(dist)
      THEN [vx    |-> Mul(Quot(dx, dist), strength),
            vy    |-> Mul(Quot(dy, dist), strength),
            fault |-> dist = 0 \/ dist + U = 0 \/ p.mass = 0]
      ELSE [vx |-> 0, vy |-> 0, fault |-> FALSE]

\* A draw of the particle's own index replaced by the next particle.
FluidPullSubstituted(p, ps, i, j, tape) ==
  LET drawn         == NeighborIndex(Rand(tape, Slot(i, j)), Len(ps))
      neighborIndex == IF drawn = i - 1 THEN i % Len(ps) ELSE drawn
  IN  FluidPullOf(p, ps[neighborIndex + 1],
                  Hypot(ps[neighborIndex + 1].x - p.x,
                        ps[neighborIndex + 1].y - p.y))

\* The velocity the j-th sampled neighbour adds to particle p = ps[i].
FluidPull(p, ps, i, j, tape) ==
  LET neighborIndex == NeighborIndex(Rand(tape, Slot(i, j)), Len(ps))
  IN  IF neighborIndex = i - 1
      THEN [vx |-> 0, vy |-> 0, fault |-> FALSE]
      ELSE IF neighborIndex + 1 \notin 1..Len(ps)
      THEN [vx |-> 0, vy |-> 0, fault |-> TRUE]
      ELSE FluidPullOf(p, ps[neighborIndex + 1],
                       Hypot(ps[neighborIndex + 1].x - p.x,
                             ps[neighborIndex + 1].y - p.y))

RECURSIVE FluidPullsFrom(_, _, _, _, _)
\* for (let j = ...; j < NEIGHBORS_TO_CHECK; j++) { ... }, from draw j on:
\* the velocity the sampled neighbours add to p.
FluidPullsFrom(j, p, ps, i, tape) ==
  IF j > NEIGHBORS_TO_CHECK THEN [vx |-> 0, vy |-> 0, fault |-> FALSE]
  ELSE Plus(FluidPull(p, ps, i, j, tape), FluidPullsFrom(j + 1, p, ps, i, tape))

\* The fluid branch after the neighbour loop, whose sum is pull, in
\* millionths (BOUNDARY_MODE decides the edges).
FluidMoved(p, pull, w, h) ==
  LET c    == Clamp(Mul(p.vx + RDiv(pull.vx, U), FRICTION),
                    Mul(p.vy + RDiv(pull.vy, U), FRICTION), MAX_VELOCITY)
      x1   == p.x + c.vx
      y1   == p.y + c.vy
      bx   == x1 < 0 \/ x1 > w
      by   == y1 < 0 \/ y1 > h
  IN  [p     |-> IF BOUNDARY_MODE = "wrap"
                 THEN [p EXCEPT !.x = Wrap(x1, w), !.y = Wrap(y1, h),
                                !.vx = c.vx, !.vy = c.vy]
                 ELSE [p EXCEPT !.x  = IF bx THEN Into(x1, w) ELSE x1,
                                !.y  = IF by THEN Into(y1, h) ELSE y1,
                                !.vx = IF bx THEN -c.vx ELSE c.vx,
                                !.vy = IF by THEN -c.vy ELSE c.vy],
       mid   |-> [vx |-> c.vx, vy |-> c.vy],
       hit   |-> FALSE,
       fault |-> c.fault \/ pull.fault]

\* The fluid branch of the particle loop.
FluidStep(p, ps, i, w, h, tape) ==
  FluidMoved(p, FluidPullsFrom(1, p, ps, i, tape), w, h)

\* --------------------------------------------------------------- swarm mode

\* if (dist < SEPARATION_RADIUS && dist > 0): the neighbour is steered from.
Separates(dist) == dist < SEPARATION_RADIUS /\ dist > 0

\* The nine accumulators of the swarm branch, at zero.
NoSample == [sx |-> 0, sy |-> 0, sc |-> 0, ax |-> 0, ay |-> 0, ac |-> 0,
             cx |-> 0, cy |-> 0, cc |-> 0, fault |-> FALSE]

\* What a neighbour dist away adds to the nine accumulators of particle p.
SwarmSampleOf(p, neighbor, dist) ==
  LET dx  == neighbor.x - p.x
      dy  == neighbor.y - p.y
      sep == Separates(dist)
      ali == dist < ALIGNMENT_RADIUS
      coh == dist < COHESION_RADIUS
  IN  [sx |-> IF sep THEN -Quot(dx, dist) ELSE 0,
       sy |-> IF sep THEN -Quot(dy, dist) ELSE 0,
       sc |-> IF sep THEN 1 ELSE 0,
       ax |-> IF ali THEN neighbor.vx ELSE 0,
       ay |-> IF ali THEN neighbor.vy ELSE 0,
       ac |-> IF ali THEN 1 ELSE 0,
       cx |-> IF coh THEN dx ELSE 0,
       cy |-> IF coh THEN dy ELSE 0,
       cc |-> IF coh THEN 1 ELSE 0,
       fault |-> sep /\ dist = 0]

\* Two sets of accumulators added.
PlusSample(a, b) ==
  [sx |-> a.sx + b.sx, sy |-> a.sy + b.sy, sc |-> a.sc + b.sc,
   ax |-> a.ax + b.ax, ay |-> a.ay + b.ay, ac |-> a.ac + b.ac,
   cx |-> a.cx + b.cx, cy |-> a.cy + b.cy, cc |-> a.cc + b.cc,
   fault |-> a.fault \/ b.fault]

\* What the j-th sampled neighbour adds to the nine accumulators of p = ps[i].
SwarmSample(p, ps, i, j, tape) ==
  LET neighborIndex == NeighborIndex(Rand(tape, Slot(i, j)), Len(ps))
  IN  IF neighborIndex = i - 1 THEN NoSample
      ELSE IF neighborIndex + 1 \notin 1..Len(ps)
      THEN [NoSample EXCEPT !.fault = TRUE]
      ELSE SwarmSampleOf(p, ps[neighborIndex + 1],
                         Hypot(ps[neighborIndex + 1].x - p.x,
                               ps[neighborIndex + 1].y - p.y))

RECURSIVE SwarmSamplesFrom(_, _, _, _, _)
\* for (let j = ...; j < SWARM_CONFIG.NEIGHBORS_TO_CHECK; j++) { ... }, from
\* draw j on: the accumulators.
SwarmSamplesFrom(j, p, ps, i, tape) ==
  IF j > SWARM_NEIGHBORS_TO_CHECK THEN NoSample
  ELSE PlusSample(SwarmSample(p, ps, i, j, tape),
                  SwarmSamplesFrom(j + 1, p, ps, i, tape))

\* x / n for a grid number x and a whole count n > 0.
Over(x, n) == RDiv(x, n)

\* The swarm branch after the neighbour loop, whose accumulators are smp.
SwarmMoved(p, smp, i, w, h, tape) ==
  LET separationCount == smp.sc
      alignmentCount  == smp.ac
      cohesionCount   == smp.cc
      vx1 == IF separationCount > 0
             THEN p.vx + Mul(Over(smp.sx, separationCount), SEPARATION_STRENGTH)
             ELSE p.vx
      vy1 == IF separationCount > 0
             THEN p.vy + Mul(Over(smp.sy, separationCount), SEPARATION_STRENGTH)
             ELSE p.vy
      vx2 == IF alignmentCount > 0
             THEN vx1 + Mul(Over(smp.ax, alignmentCount) - vx1, ALIGNMENT_STRENGTH)
             ELSE vx1
      vy2 == IF alignmentCount > 0
             THEN vy1 + Mul(Over(smp.ay, alignmentCount) - vy1, ALIGNMENT_STRENGTH)
             ELSE vy1
      vx3 == IF cohesionCount > 0
             THEN vx2 + Mul(Over(smp.cx, cohesionCount), COHESION_STRENGTH)
             ELSE vx2
      vy3 == IF cohesionCount > 0
             THEN vy2 + Mul(Over(smp.cy, cohesionCount), COHESION_STRENGTH)
             ELSE vy2
      noiseAngle == Rand(tape, Slot(i, 9))
      vx4 == vx3 + Mul(CosTurn(noiseAngle), RANDOM_NOISE)
      vy4 == vy3 + Mul(SinTurn(noiseAngle), RANDOM_NOISE)
      c   == Clamp(Mul(vx4, SWARM_FRICTION), Mul(vy4, SWARM_FRICTION),
                   SWARM_MAX_VELOCITY)
  IN  [p     |-> [p EXCEPT !.x = Wrap(p.x + c.vx, w), !.y = Wrap(p.y + c.vy, h),
                           !.vx = c.vx, !.vy = c.vy],
       mid   |-> [vx |-> c.vx, vy |-> c.vy],
       hit   |-> FALSE,
       fault |-> c.fault \/ smp.fault]

\* The swarm branch of the particle loop.
SwarmStep(p, ps, i, w, h, tape) ==
  SwarmMoved(p, SwarmSamplesFrom(1, p, ps, i, tape), i, w, h, tape)

\* ------------------------------------------------------------ the tick loop

\* A loop body with a variable timestep: the branch's move is applied once
\* more when the timestamp falls in the later half of a frame.
TimeScaledLoopBody(mode, a, i, w, h, currentTime, tape) ==
  LET p == a.ps[i]
      r == CASE mode = "gravity" -> GravityStep(p, i, w, h, tape)
             [] mode = "chaos"   -> ChaosStep(p, i, w, h, tape)
             [] mode = "weather" -> WeatherStep(p, a.vs, w, h, currentTime)
             [] mode = "swarm"   -> SwarmStep(p, a.ps, i, w, h, tape)
             [] OTHER            -> FluidStep(p, a.ps, i, w, h, tape)
      late == (currentTime % frameDuration) * 2 >= frameDuration
  IN  [ps    |-> [a.ps EXCEPT ![i] =
                    IF late THEN [r.p EXCEPT !.x = r.p.x + r.mid.vx,
                                             !.y = r.p.y + r.mid.vy]
                    ELSE r.p],
       vs    |-> IF mode = "weather" THEN r.vs ELSE a.vs,
       mid   |-> Append(a.mid, r.mid),
       hit   |-> Append(a.hit, r.hit),
       fault |-> a.fault \/ r.fault]

\* The body of the particle loop for index i: the branch of the engine's mode.
\* a holds the loop's state: ps the particle array, vs the vortices, mid the
\* velocity each particle was moved by, hit whether it met the floor, fault
\* whether a division by zero or a read outside the array happened.
LoopBody(mode, a, i, w, h, currentTime, tape) ==
  LET p == a.ps[i]
      r == CASE mode = "gravity" -> GravityStep(p, i, w, h, tape)
             [] mode = "chaos"   -> ChaosStep(p, i, w, h, tape)
             [] mode = "weather" -> WeatherStep(p, a.vs, w, h, currentTime)
             [] mode = "swarm"   -> SwarmStep(p, a.ps, i, w, h, tape)
             [] OTHER            -> FluidStep(p, a.ps, i, w, h, tape)
  IN  [ps    |-> [a.ps EXCEPT ![i] = r.p],
       vs    |-> IF mode = "weather" THEN r.vs ELSE a.vs,
       mid   |-> Append(a.mid, r.mid),
       hit   |-> Append(a.hit, r.hit),
       fault |-> a.fault \/ r.fault]

RECURSIVE LoopFrom(_, _, _, _, _, _, _)
\* for (let i = ...; i < particles.length; i++) { ... }
LoopFrom(i, mode, a, w, h, currentTime, tape) ==
  IF i > Len(a.ps) THEN a
  ELSE LoopFrom(i + 1, mode, LoopBody(mode, a, i, w, h, currentTime, tape),
                w, h, currentTime, tape)

\* "Update particles": one executed physics tick.
Tick(mode, ps, vs, w, h, currentTime, tape) ==
  LoopFrom(1, mode, [ps |-> ps, vs |-> vs, mid |-> <<>>, hit |-> <<>>,
                     fault |-> FALSE], w, h, currentTime, tape)

\* ---------------------------------------------- the text route (fetch-text)

\* export const MAX_CHARS = 3000
MAX_CHARS == 3000

\* A string is the sequence of its code units. The characters of t at the
\* positions in keep, in order: what a global replace that deletes the
\* other positions leaves.
Kept(t, keep) ==
  LET isKept(k) == k \in keep
      ks == SelectSeq([k \in 1..Len(t) |-> k], isKept)
  IN  [n \in 1..Len(ks) |-> t[ks[n]]]

\* String.prototype.trim
Trim(t) ==
  LET inked == {k \in 1..Len(t) : t[k] \notin WhiteSpaceCodes}
  IN  IF inked = {} THEN <<>>
      ELSE SubSeq(t, CHOOSE k \in inked : \A m \in inked : k <= m,
                     CHOOSE k \in inked : \A m \in inked : k >= m)

\* extractTextFromHtml, for a document whose body has the text content
\* `body`; a document that does not parse makes it throw. The text is
\* body.replace(/\s+/g, ' ').replace(/\n+/g, '\n').trim(): every run of
\* white space becomes one space, then every run of newlines one newline.
ExtractTextFromHtml(parses, body) ==
  LET runs    == Kept(body, {k \in 1..Len(body) :
                        \/ body[k] \notin WhiteSpaceCodes
                        \/ k = 1
                        \/ body[k - 1] \notin WhiteSpaceCodes})
      spaced  == [k \in 1..Len(runs) |->
                    IF runs[k] \in WhiteSpaceCodes THEN 32 ELSE runs[k]]
      lines   == Kept(spaced, {k \in 1..Len(spaced) :
                        spaced[k] # 10 \/ k = 1 \/ spaced[k - 1] # 10})
  IN  IF ~parses THEN [threw |-> TRUE, text |-> <<>>]
      ELSE [threw |-> FALSE, text |-> Trim(lines)]

\* sanitizeText: text.replace(/\r\n/g, '\n') drops a carriage return that a
\* newline follows, .replace(/\n{3,}/g, '\n\n') drops a newline that follows
\* two others, then trim() and slice(0, MAX_CHARS).
SanitizeText(t) ==
  LET unix    == Kept(t, {k \in 1..Len(t) :
                        ~(t[k] = 13 /\ k < Len(t) /\ t[k + 1] = 10)})
      cleaned == Trim(Kept(unix, {k \in 1..Len(unix) :
                        ~(unix[k] = 10 /\ k > 2 /\ unix[k - 1] = 10
                                      /\ unix[k - 2] = 10)}))
  IN  SubSeq(cleaned, 1, Min(Len(cleaned), MAX_CHARS))

\* The url parameters of the requests: none, empty, not a URL, a file
\* transfer URL, and three web URLs.
UrlParams == {"null", "", "not a url", "ftp://h/", "http://h/", "https://h/a",
              "HTTP://H/"}

\* validateUrl: whether it returns; it throws when new URL(urlString) throws
\* or when the protocol is neither http: nor https:.
ValidateUrl(urlString) ==
  LET protocol == CASE urlString \in {"http://h/", "HTTP://H/"} -> "http:"
                    [] urlString = "https://h/a" -> "https:"
                    [] urlString = "ftp://h/" -> "ftp:"
                    [] OTHER -> "throws"
  IN  protocol \in {"http:", "https:"}

\* What the fetched server does, as fetch reports it: no answer within the
\* 10 s of AbortSignal.timeout (the signal aborts with a DOMException named
\* TimeoutError, which fetch rejects with), a network failure (a TypeError),
\* a status that is not ok, a document that does not parse, or a document
\* with a body; the last body has more than MAX_CHARS characters.
Servers ==
  {[error |-> "TimeoutError", status |-> 0, parses |-> FALSE, body |-> <<>>],
   [error |-> "TypeError", status |-> 0, parses |-> FALSE, body |-> <<>>],
   [error |-> "none", status |-> 404, parses |-> TRUE, body |-> <<72, 105>>],
   [error |-> "none", status |-> 500, parses |-> TRUE, body |-> <<>>],
   [error |-> "none", status |-> 200, parses |-> FALSE, body |-> <<>>]}
  \cup {[error |-> "none", status |-> 200, parses |-> TRUE, body |-> b] :
          b \in {<<>>, <<32, 10, 9>>, <<65>>,
                 <<32, 72, 105, 13, 10, 10, 10, 32, 33, 10>>,
                 [k \in 1..(MAX_CHARS + 5) |-> IF k % 7 = 0 THEN 32 ELSE 65]}}

\* The requests: a url parameter and the server behind it.
Requests == [url : UrlParams, server : Servers]

\* No request, and no response yet.
NoRequest ==
  [url |-> "null",
   server |-> [error |-> "idle", status |-> 0, parses |-> FALSE, body |-> <<>>]]

NoResponse == [status |-> 0, text |-> <<>>, fetches |-> 0]

\* GET: the response to the request req, and the fetches it made. The fetch
\* error is a timeout when error.name === 'AbortError'; response.ok is a
\* status in 200..299.
Get(req) ==
  IF req.url \in {"null", ""}
  THEN [status |-> 400, text |-> <<>>, fetches |-> 0]
  ELSE IF ~ValidateUrl(req.url)
  THEN [status |-> 400, text |-> <<>>, fetches |-> 0]
  ELSE IF req.server.error # "none"
  THEN [status |-> IF req.server.error = "AbortError" THEN 504 ELSE 502,
        text |-> <<>>, fetches |-> 1]
  ELSE IF req.server.status \notin 200..299
  THEN [status |-> 502, text |-> <<>>, fetches |-> 1]
  ELSE LET extracted == ExtractTextFromHtml(req.server.parses, req.server.body)
           sanitized == SanitizeText(extracted.text)
       IN  IF extracted.threw
           THEN [status |-> 422, text |-> <<>>, fetches |-> 1]
           ELSE IF Len(sanitized) = 0
           THEN [status |-> 422, text |-> <<>>, fetches |-> 1]
           ELSE [status |-> 200, text |-> sanitized, fetches |-> 1]

\* -------------------------------------------------------------------- state

VARIABLES
  text,               \* the text prop the effect last ran with
  width, height,      \* canvas.width, canvas.height
  particles,          \* particlesRef.current
  engines,            \* one closure per run of the effect: mode, lastTime,
                      \* vortices, the handle of its pending callback, and
                      \* for the record the time it started at and the
                      \* ticks it has executed (counted as far as the
                      \* frame clock's runs go)
  mounted,            \* the effect has run and its cleanup has not
  animationFrameRef,  \* animationFrameRef.current (0: undefined)
  reported,           \* the count last passed to onParticleCount
  now,                \* the time of the latest handler run
  mid,                \* last tick: the velocity each particle was moved by
  hit,                \* last tick: whether each particle met the floor
  touched,            \* whether each particle has met the floor since created
  fault,              \* a tick divided by zero or read outside the array
  flip,               \* toggles at every executed tick
  frames,             \* callbacks run so far
  request,            \* the request the text route is handling
  response            \* the response it has given to it

vars == <<text, width, height, particles, engines, mounted, animationFrameRef,
          reported, now, mid, hit, touched, fault, flip, frames, request,
          response>>

\* The texts the component is given.
Texts == {<<>>, <<32, 10>>, <<1>>, <<65, 32, 66>>, <<200, 160, 79>>}

\* The extents getBoundingClientRect reports.
Sizes == {[w |-> 12 * U, h |-> 30 * U], [w |-> 36 * U, h |-> 16 * U]}

\* The time between two handler runs.
Steps == {20, 50}

\* The closure of a run of the effect that nothing refers to any more.
Collected == [mode |-> "none", lastTime |-> 0, vortices |-> <<>>, pendingId |-> 0,
              started |-> 0, ticks |-> 0]

\* The handles of the callbacks that are pending.
PendingIds(engs) == {engs[k].pendingId : k \in 1..Len(engs)} \ {0}

\* requestAnimationFrame's result: a handle no pending callback and no
\* reference holds.
FreshId(used) ==
  CHOOSE n \in 1..(Cardinality(used) + 1) :
    n \notin used /\ \A m \in 1..(n - 1) : m \in used

\* cancelAnimationFrame(id)
CancelAnimationFrame(engs, id) ==
  [k \in 1..Len(engs) |->
     IF engs[k].pendingId = id THEN [engs[k] EXCEPT !.pendingId = 0] ELSE engs[k]]

\* A cleanup that cancels nothing.
NoCancel(engs, ref) == engs

\* if (animationFrameRef.current) cancelAnimationFrame(animationFrameRef.current)
CleanupCancel(engs, ref) == IF ref # 0 THEN CancelAnimationFrame(engs, ref) ELSE engs

\* A closure whose effect was cleaned up and that has no pending callback is
\* unreachable: its state is garbage.
Collect(engs, live) ==
  [k \in 1..Len(engs) |->
     IF k # live /\ engs[k].pendingId = 0 THEN Collected ELSE engs[k]]

\* The clock's period in the model.
ClockSpan == WindPeriod

\* A time, as the clock shows it.
Clock(t) == t % ClockSpan

\* A callback that ticks whatever the time since the last tick.
AlwaysDue(deltaTime) == TRUE

\* if (deltaTime >= frameDuration)
Due(deltaTime) == deltaTime >= frameDuration

\* lastTime = currentTime: the remainder is dropped.
RemainderDropped(currentTime, deltaTime) == Clock(currentTime)

\* lastTime = currentTime - (deltaTime % frameDuration)
NextLastTime(currentTime, deltaTime) ==
  Clock(currentTime - (deltaTime % frameDuration))

\* The body of the effect: resizeCanvas, initParticles, the vortices,
\* lastTime and the first requestAnimationFrame.
Effect(t, m, sz, tape, at, engs, ref) ==
  LET id == FreshId(PendingIds(engs) \cup {ref})
      ps == InitParticles(t, sz.w, sz.h, tape)
  IN  /\ text' = t
      /\ width' = sz.w
      /\ height' = sz.h
      /\ particles' = ps
      /\ reported' = Len(ps)
      /\ engines' = Append(engs, [mode      |-> m,
                                  lastTime  |-> at,
                                  vortices  |-> InitVortices(m, sz.w, sz.h, tape),
                                  pendingId |-> id,
                                  started   |-> at,
                                  ticks     |-> 0])
      /\ animationFrameRef' = id
      /\ mounted' = TRUE
      /\ now' = at
      /\ mid' = <<>>
      /\ hit' = <<>>
      /\ touched' = [i \in 1..Len(ps) |-> FALSE]
      /\ fault' = FALSE

\* The state after the component is first mounted with text t and mode m,
\* the text route being idle.
Constructed(t, m, sz, tape) ==
  /\ request = NoRequest
  /\ response = NoResponse
  /\ text = t
  /\ width = sz.w
  /\ height = sz.h
  /\ particles = InitParticles(t, sz.w, sz.h, tape)
  /\ reported = Len(particles)
  /\ engines = <<[mode |-> m, lastTime |-> 7,
                  vortices |-> InitVortices(m, sz.w, sz.h, tape), pendingId |-> 1,
                  started |-> 7, ticks |-> 0]>>
  /\ animationFrameRef = 1
  /\ mounted = TRUE
  /\ now = 7
  /\ mid = <<>>
  /\ hit = <<>>
  /\ touched = [i \in 1..Len(particles) |-> FALSE]
  /\ fault = FALSE
  /\ flip = 0
  /\ frames = 0

\* What animate(currentTime) leaves behind when it runs as the callback of
\* the closure env: ran tells whether the tick was executed, a is the state
\* the particle loop ended in, lastTime the closure's new lastTime.
Animated(env, currentTime, tape) ==
  LET deltaTime == Clock(currentTime - env.lastTime)
  IN  IF Due(deltaTime)
      THEN [ran      |-> TRUE,
            a        |-> Tick(env.mode, particles, env.vortices, width, height,
                              currentTime, tape),
            lastTime |-> NextLastTime(currentTime, deltaTime)]
      ELSE [ran      |-> FALSE,
            a        |-> [ps |-> particles, vs |-> env.vortices, mid |-> mid,
                          hit |-> hit, fault |-> FALSE],
            lastTime |-> env.lastTime]

\* The state animate leaves, written back; id is the handle of the callback
\* its closing requestAnimationFrame(animate) registers.
Settled(e, r, id) ==
  /\ particles' = r.a.ps
  /\ engines' = [engines EXCEPT ![e] = [mode      |-> engines[e].mode,
                                        lastTime  |-> r.lastTime,
                                        vortices  |-> r.a.vs,
                                        pendingId |-> id,
                                        started   |-> engines[e].started,
                                        ticks     |->
                                          IF r.ran
                                          THEN Min(engines[e].ticks + 1,
                                                   MaxClockFrames + 2)
                                          ELSE engines[e].ticks]]
  /\ animationFrameRef' = id
  /\ mid' = r.a.mid
  /\ hit' = r.a.hit
  /\ touched' = IF r.ran /\ Len(touched) = Len(r.a.hit)
                THEN [i \in 1..Len(touched) |-> touched[i] \/ r.a.hit[i]]
                ELSE touched
  /\ fault' = r.a.fault
  /\ flip' = IF r.ran THEN 1 - flip ELSE flip

\* animate(currentTime), the callback of engine e, run d after the last
\* handler with the random tape `tape`.
Animate(e, d, tape) ==
  /\ e \in 1..Len(engines)
  /\ engines[e].pendingId # 0
  /\ ~fault
  /\ now' = Clock(now + d)
  /\ Settled(e, Animated(engines[e], Clock(now + d), tape),
             FreshId((PendingIds(engines) \ {engines[e].pendingId})
                       \cup {animationFrameRef}))
  /\ UNCHANGED <<text, width, height, mounted, reported, request, response>>

\* A resize that moves the particles into the new extent.
ReflowingResize(sz) ==
  /\ mounted
  /\ <<sz.w, sz.h>> # <<width, height>>
  /\ width' = sz.w
  /\ height' = sz.h
  /\ particles' = [i \in 1..Len(particles) |->
                     [particles[i] EXCEPT !.x = Min(@, sz.w), !.y = Min(@, sz.h)]]
  /\ UNCHANGED <<text, engines, mounted, animationFrameRef, reported,
                 now, mid, hit, touched, fault, flip, frames, request, response>>

\* resizeCanvas, the window's resize listener.
ResizeCanvas(sz) ==
  /\ mounted
  /\ <<sz.w, sz.h>> # <<width, height>>
  /\ width' = sz.w
  /\ height' = sz.h
  /\ UNCHANGED <<text, particles, engines, mounted, animationFrameRef, reported,
                 now, mid, hit, touched, fault, flip, frames, request, response>>

\* The effect's cleanup: on unmount, or before the effect runs again.
Cleanup ==
  /\ mounted
  /\ mounted' = FALSE
  /\ engines' = Collect(CleanupCancel(engines, animationFrameRef), 0)
  /\ UNCHANGED <<text, width, height, particles, animationFrameRef, reported,
                 now, mid, hit, touched, fault, flip, frames, request, response>>

\* The effect run again, with text t and mode m, d after the last handler.
\* The page gives the component a new text (a fetch, the default text), a new
\* mode or neither (a restart): one handler changes one of the two.
Mount(t, m, d, tape) ==
  /\ ~mounted
  /\ Len(engines) < MaxMounts
  /\ t = text \/ m = engines[Len(engines)].mode
  /\ Effect(t, m, [w |-> width, h |-> height], tape, Clock(now + d), engines,
            animationFrameRef)
  /\ UNCHANGED <<flip, frames, request, response>>

\* A callback of a run that follows at most max of them.
Callback(max, steps, tapes) ==
  /\ frames < max
  /\ frames' = frames + 1
  /\ \E e \in 1..Len(engines), d \in steps, tape \in tapes : Animate(e, d, tape)

\* ------------------------------------------------- the component's life

Init ==
  \E t \in Texts, m \in Modes, tape \in Tapes, sz \in Sizes :
    Constructed(t, m, sz, tape)

Next ==
  \/ Callback(MaxFrames, Steps, Tapes)
  \/ \E sz \in Sizes : ResizeCanvas(sz)
  \/ Cleanup
  \/ \E t \in Texts, m \in Modes, tape \in Tapes : Mount(t, m, 20, tape)

Spec == Init /\ [][Next]_vars

\* ------------------------------------------------------ one engine, longer

\* The texts of the long runs: one or two characters.
DeepTexts == {<<1>>, <<79>>, <<200>>, <<65, 32, 66>>}

\* The extents of the long runs.
DeepSizes == {[w |-> 12 * U, h |-> 30 * U], [w |-> 120 * U, h |-> 60 * U],
              [w |-> 12 * U, h |-> 120 * U]}

\* The tapes the particles of a long run are created from.
DeepSeeds == {QuietTape, BurstTape, [s |-> 3, d |-> 1], [s |-> 1, d |-> 1]}

InitDeep ==
  \E t \in DeepTexts, m \in Modes, tape \in DeepSeeds, sz \in DeepSizes :
    Constructed(t, m, sz, tape)

\* Every tick of a long run reads the same tape.
NextDeep == Callback(MaxDeepFrames, {frameDuration}, {BurstTape})

SpecDeep == InitDeep /\ [][NextDeep]_vars

\* ------------------------------------------- weather on a wide surface

\* Long weather runs of one and of two particles, on a surface smaller than
\* a vortex's radius and on one wider than it.
InitWeather ==
  \E t \in {<<79>>, <<65, 32, 66>>}, tape \in DeepSeeds,
     sz \in {[w |-> 12 * U, h |-> 30 * U], [w |-> 400 * U, h |-> 30 * U]} :
    Constructed(t, "weather", sz, tape)

SpecWeather == InitWeather /\ [][NextDeep]_vars

\* ------------------------------------------- a chaos engine left running

\* The texts of the endless runs: one character.
LiveTexts == {<<1>>, <<79>>, <<200>>}

\* The time between two callbacks of an endless run: half a turn of the clock.
LiveStep == ClockSpan \div 2

\* No particle moves.
AtRest == \A i \in 1..Len(particles) : particles[i].vx = 0 /\ particles[i].vy = 0

InitLive ==
  \E t \in LiveTexts, tape \in DeepSeeds :
    Constructed(t, "chaos", [w |-> 12 * U, h |-> 30 * U], tape)

\* A callback whose tick draws a burst of turbulence.
Burst == Animate(1, LiveStep, BurstTape) /\ UNCHANGED frames

\* A callback whose tick draws no burst; the runs followed have them only
\* while the particles are at rest.
Quiet == AtRest /\ Animate(1, LiveStep, QuietTape) /\ UNCHANGED frames

NextLive == Burst \/ Quiet

\* The clock of a callback of an endless run.
NextFrame == now' = Clock(now + LiveStep)

\* Every callback requests the next one, and the browser keeps calling them.
SpecLive == InitLive /\ [][NextLive]_vars /\ WF_now(NextFrame)

\* ------------------------------------------------------------------ claims

\* The engine whose effect ran last.
Live == engines[Len(engines)]

\* --------------------------------------------------------- the text route

\* The page's variables, which the route leaves alone.
page == <<text, width, height, particles, engines, mounted, animationFrameRef,
          reported, now, mid, hit, touched, fault, flip, frames>>

\* A request arrives at the idle route.
Receive(req) ==
  /\ request = NoRequest
  /\ request' = req
  /\ response' = NoResponse
  /\ UNCHANGED page

\* GET handles the request and gives its response.
Respond ==
  /\ request # NoRequest
  /\ response = NoResponse
  /\ response' = Get(request)
  /\ UNCHANGED <<request, page>>

\* The response is delivered: the route is idle again.
Deliver ==
  /\ response # NoResponse
  /\ request' = NoRequest
  /\ response' = NoResponse
  /\ UNCHANGED page

InitRoute == Constructed(<<>>, "fluid", [w |-> 12 * U, h |-> 30 * U], QuietTape)

NextRoute == (\E req \in Requests : Receive(req)) \/ Respond \/ Deliver

SpecRoute == InitRoute /\ [][NextRoute]_vars

\* ------------------------------------------------------- the frame clock

\* The texts and modes of the runs that follow the clock: no particle or one.
ClockTexts == {<<>>, <<79>>}
ClockModes == {"fluid", "gravity"}

\* The time between two callbacks: none, less than a frame, a frame, a
\* frame and a bit, more than three frames.
ClockSteps == {0, 20, frameDuration, 70, 170}

InitClock ==
  \E t \in ClockTexts, m \in ClockModes :
    Constructed(t, m, [w |-> 12 * U, h |-> 30 * U], QuietTape)

NextClock ==
  \/ Callback(MaxClockFrames, ClockSteps, {QuietTape})
  \/ Cleanup
  \/ \E m \in ClockModes : Mount(text, m, 20, QuietTape)

SpecClock == InitClock /\ [][NextClock]_vars

\* vx^2 + vy^2
SpeedSq(v) == v.vx * v.vx + v.vy * v.vy

\* The MAX_VELOCITY constant a mode's branch reads; GRAVITY_CONFIG has none,
\* and CONFIG's is the only other one.
MaxVelocityOf(mode) ==
  CASE mode = "chaos" -> CHAOS_MAX_VELOCITY
    [] mode = "weather" -> WEATHER_MAX_VELOCITY
    [] mode = "swarm" -> SWARM_MAX_VELOCITY
    [] OTHER -> MAX_VELOCITY

\* The branches that limit the velocity.
ClampingModes == {"fluid", "chaos", "weather", "swarm"}

\* What the rounding of the rescale (vx / speed) * max can add to a length:
\* the quotient and the product are each rounded once, on either axis.
ClampSlack(max) == (2 * max) \div U

\* The largest MAX_VELOCITY of any configuration.
LargestMaxVelocity == Max(Max(MAX_VELOCITY, CHAOS_MAX_VELOCITY),
                          Max(WEATHER_MAX_VELOCITY, SWARM_MAX_VELOCITY))

\* C1, as stated: in every mode, gravity included, the velocity a tick moves
\* a particle by has vx^2 + vy^2 <= MAX_VELOCITY^2 -- read here in the way
\* kindest to the statement, with the largest MAX_VELOCITY of any mode and
\* the rounding of the rescale allowed for.
C1_AsStated ==
  \A i \in 1..Len(mid) :
    SpeedSq(mid[i]) <= (LargestMaxVelocity + ClampSlack(LargestMaxVelocity))
                         * (LargestMaxVelocity + ClampSlack(LargestMaxVelocity))

\* The branches that leave the velocity alone once the position is updated
\* (the chaos branch bounces off the walls with WALL_BOUNCE_ENERGY after it).
KeepsClamped == {"fluid", "weather", "swarm"}

\* v is no longer than max, up to the rounding of the rescale.
Within(v, max) ==
  SpeedSq(v) <= (max + ClampSlack(max)) * (max + ClampSlack(max))

\* C1: in the fluid, chaos, weather and swarm modes the velocity a tick moves
\* a particle by is no longer than the mode's MAX_VELOCITY, up to the
\* rounding of the rescale; in the fluid, weather and swarm modes so is the
\* velocity the particle is left with.
C1_ClampedModes ==
  /\ Live.mode \in ClampingModes =>
       \A i \in 1..Len(mid) : Within(mid[i], MaxVelocityOf(Live.mode))
  /\ Live.mode \in KeepsClamped =>
       \A i \in 1..Len(particles) : Within(particles[i], MaxVelocityOf(Live.mode))

\* A tick of a clamping mode has moved a particle at the mode's full speed.
C1_Witness ==
  /\ Live.mode \in ClampingModes
  /\ \E i \in 1..Len(mid) :
       SpeedSq(mid[i]) >= (MaxVelocityOf(Live.mode) - ClampSlack(MaxVelocityOf(Live.mode)))
                            * (MaxVelocityOf(Live.mode) - ClampSlack(MaxVelocityOf(Live.mode)))

\* The branches that wrap x, and those that wrap y as well (the fluid branch
\* because BOUNDARY_MODE is 'wrap').
WrapsX == {"fluid", "weather", "swarm", "gravity"}
WrapsY == {"fluid", "weather", "swarm"}

\* A step of the model in which animate executed a tick.
Ticks == flip' # flip

\* C2, as stated: after every tick of a wrapping mode each particle has
\* 0 <= x < width and, where y wraps, 0 <= y < height.
C2_AsStated ==
  [][Ticks =>
       \A i \in 1..Len(particles') :
         /\ Live.mode \in WrapsX =>
              0 <= particles'[i].x /\ particles'[i].x < width
         /\ Live.mode \in WrapsY =>
              0 <= particles'[i].y /\ particles'[i].y < height]_vars

\* C2: a tick of a wrapping mode that finds a particle's x in [0, width]
\* and moves it by no more than width leaves x in [0, width], width
\* included; and the same for y and height where y wraps.
C2_WrapKeepsInside ==
  [][Ticks =>
       \A i \in 1..Len(particles') :
         /\ ( /\ Live.mode \in WrapsX
              /\ 0 <= particles[i].x /\ particles[i].x <= width
              /\ Abs(mid'[i].vx) <= width )
              => 0 <= particles'[i].x /\ particles'[i].x <= width
         /\ ( /\ Live.mode \in WrapsY
              /\ 0 <= particles[i].y /\ particles[i].y <= height
              /\ Abs(mid'[i].vy) <= height )
              => 0 <= particles'[i].y /\ particles'[i].y <= height]_vars

\* The last tick carried a particle over the right edge and the wrap brought
\* it back in at the left.
C2_Witness ==
  /\ Live.mode \in WrapsX
  /\ \E i \in 1..Len(mid) :
       /\ mid[i].vx > 0
       /\ particles[i].x - mid[i].vx < 0
       /\ 0 <= particles[i].x /\ particles[i].x <= width

\* The number of characters of t that are not white space.
VisibleCount(t) == Cardinality({k \in 1..Len(t) : t[k] \notin WhiteSpaceCodes})

\* The k-th character of t that is not white space.
VisibleAt(t, k) ==
  t[CHOOSE n \in 1..Len(t) :
      /\ t[n] \notin WhiteSpaceCodes
      /\ Cardinality({m \in 1..n : t[m] \notin WhiteSpaceCodes}) = k]

\* C3: the count reported at initialization is the number of characters of
\* the text that are not white space, and in every state the particle
\* sequence has that count, index i holding the i-th such character and its
\* code.
C3_CountIsVisibleChars ==
  /\ reported = VisibleCount(text)
  /\ Len(particles) = VisibleCount(text)
  /\ \A i \in 1..Len(particles) :
       /\ particles[i].ch = VisibleAt(text, i)
       /\ particles[i].code = VisibleAt(text, i)

\* A tick has run on the particles of a text that holds white space and
\* other characters.
C3_Witness ==
  /\ mid # <<>>
  /\ Len(particles) > 0
  /\ Len(particles) < Len(text)

\* The fields of a particle that no tick may change.
Constants(p) == <<p.norm, p.mass, p.hue, p.code, p.ch>>

\* C4: every particle has norm in [0, 1] and mass = 0.5 + (1 - norm) * 0.5
\* in [0.5, 1], whatever its character code, and no tick changes norm, mass,
\* hue, code or character.
C4_NormAndMass ==
  /\ [](\A i \in 1..Len(particles) :
          /\ 0 <= particles[i].norm /\ particles[i].norm <= U
          /\ particles[i].mass = 500 + Mul(U - particles[i].norm, 500)
          /\ 500 <= particles[i].mass /\ particles[i].mass <= U)
  /\ [][Ticks => /\ Len(particles') = Len(particles)
                  /\ \A i \in 1..Len(particles) :
                       Constants(particles'[i]) = Constants(particles[i])]_vars

\* A tick has moved a particle whose code is below 32 or above 126.
C4_Witness ==
  \E i \in 1..Len(mid) :
    /\ particles[i].code \notin 32..126
    /\ mid[i] # [vx |-> 0, vy |-> 0]

\* C5: a callback is pending only for the engine of the effect that ran
\* last, and only while that effect is not cleaned up: no callback of a
\* torn-down engine is left to run.
C5_NoStaleCallback ==
  \A k \in 1..Len(engines) :
    engines[k].pendingId # 0 => mounted /\ k = Len(engines)

\* After a teardown and a new run of the effect, the new engine has ticked.
C5_Witness ==
  /\ Len(engines) > 1
  /\ mounted
  /\ mid # <<>>

\* C6: no tick divides by zero or reads outside the particle sequence, and
\* with no particles a tick updates nothing.
C6_NoFault ==
  /\ ~fault
  /\ Len(particles) = 0 => mid = <<>> /\ hit = <<>>

\* A chaos tick has run on a particle that was exactly on the centre of the
\* surface, where the distance the pull is divided by is zero.
C6_Witness ==
  \E i \in 1..Len(mid) :
    /\ Live.mode = "chaos"
    /\ particles[i].x - mid[i].vx = RDiv(width, 2)
    /\ particles[i].y - mid[i].vy = RDiv(height, 2)

\* C7, as stated: a weather tick with no particles advances every vortex by
\* its velocity and bounces it off the edges.
C7_AsStated ==
  [][(Ticks /\ Live.mode = "weather" /\ Len(particles) = 0) =>
       engines'[Len(engines)].vortices
         = AdvanceVortices(Live.vortices, width, height)]_vars

\* The y of the floor line.
GroundY == height - FLOOR_OFFSET

\* The vy initParticles gives a particle of this norm.
InitialVy(p) == Mul(SinTurn(p.norm), p.norm * 2)

\* A tick of a gravity run of one particle that was created with vy = 0,
\* has not met the floor yet and is above the floor line.
FallingAlone ==
  /\ Ticks
  /\ Live.mode = "gravity"
  /\ Len(particles) = 1
  /\ InitialVy(particles[1]) = 0
  /\ ~touched[1]
  /\ particles[1].y < GroundY

\* The vertical speed of the bounce of the last tick, before it is settled.
BounceSpeed(v) == Abs(Mul(v.vy, -BOUNCE_DAMPING))

\* C8, as stated: vy grows on every tick before the floor, and is strictly
\* negative after the tick of the first floor contact.
C8_AsStated ==
  [][FallingAlone =>
       IF hit'[1] THEN particles'[1].vy < 0
       ELSE particles'[1].vy > particles[1].vy]_vars

\* C8: vy grows on every tick before the floor; after the tick of the first
\* floor contact it is strictly negative when the bounce is at least 0.5
\* fast, and exactly 0 when it is slower.
C8_FallThenBounce ==
  [][FallingAlone =>
       IF hit'[1]
       THEN IF BounceSpeed(mid'[1]) >= 500 THEN particles'[1].vy < 0
            ELSE particles'[1].vy = 0
       ELSE particles'[1].vy > particles[1].vy]_vars

\* A lone particle has fallen for several ticks, met the floor and bounced
\* upwards.
C8_Witness ==
  /\ Live.mode = "gravity"
  /\ Len(particles) = 1
  /\ InitialVy(particles[1]) = 0
  /\ frames > 3
  /\ hit = <<TRUE>>
  /\ particles[1].vy < 0

\* C9: a gravity tick that moves a particle to or past the floor line leaves
\* it exactly on the floor line, with vy exactly 0 if the bounce is slower
\* than 0.5.
C9_FloorContact ==
  [][(Ticks /\ Live.mode = "gravity") =>
       \A i \in 1..Len(particles) :
         hit'[i] =>
           /\ particles'[i].y = GroundY
           /\ BounceSpeed(mid'[i]) < 500 => particles'[i].vy = 0]_vars

\* A gravity tick has put a particle on the floor line and stopped its slow
\* bounce.
C9_Witness ==
  /\ Live.mode = "gravity"
  /\ \E i \in 1..Len(hit) :
       /\ hit[i]
       /\ mid[i].vy > 0
       /\ particles[i].vy = 0
       /\ particles[i].y = GroundY

\* Some particle has a velocity that is not zero.
Moving == \E i \in 1..Len(particles) : particles[i].vx # 0 \/ particles[i].vy # 0

SamplingTapes == {[s |-> a, d |-> b] : a \in 0..(Len(RandVals) - 1),
                                       b \in 0..(Len(RandVals) - 1)}

\* The other particle of a pair.
Other(i) == 3 - i

\* The distance between the two particles of a pair.
PairDist == Hypot(particles[2].x - particles[1].x, particles[2].y - particles[1].y)

\* A fluid run of two particles whose codes differ by 1, at a distance that
\* is not zero and is below INTERACTION_RADIUS.
AlikePair ==
  /\ Live.mode = "fluid"
  /\ Len(particles) = 2
  /\ Abs(particles[1].code - particles[2].code) = 1
  /\ FluidInteracts(PairDist)

\* The velocity the neighbour loop of a tick reading `tape` adds to particle
\* i of the pair.
PairPull(i, tape) == FluidPullsFrom(1, particles[i], particles, i, tape)

\* The component of the velocity change v of particle i along the line to
\* the other particle: positive is toward it.
Toward(i, v) ==
  Quot(particles[Other(i)].x - particles[i].x, PairDist) * v.vx
    + Quot(particles[Other(i)].y - particles[i].y, PairDist) * v.vy

\* Some draw of particle i in a tick reading `tape` is the other particle.
DrawsOther(i, tape) ==
  \E j \in 1..NEIGHBORS_TO_CHECK :
    NeighborIndex(Rand(tape, Slot(i, j)), Len(particles)) = Other(i) - 1

\* C11, as stated: each particle of such a pair is pulled toward the other
\* in a tick, for every outcome of the sampling.
C11_AsStated ==
  AlikePair =>
    \A tape \in SamplingTapes, i \in 1..2 : Toward(i, PairPull(i, tape)) > 0

\* C11: each particle of such a pair is pulled toward the other in a tick
\* whose sampling draws the other particle at least once; when every draw
\* is the particle's own index, the neighbour loop leaves its velocity alone.
C11_AttractsWhenDrawn ==
  AlikePair =>
    \A tape \in SamplingTapes, i \in 1..2 :
      IF DrawsOther(i, tape) THEN Toward(i, PairPull(i, tape)) > 0
      ELSE PairPull(i, tape).vx = 0 /\ PairPull(i, tape).vy = 0

\* A tick has run on such a pair, and under one of the run's tapes particle 1
\* draws the other particle while particle 2 draws only itself.
C11_Witness ==
  /\ AlikePair
  /\ mid # <<>>
  /\ flip = 1
  /\ \E tape \in Tapes : DrawsOther(1, tape) /\ ~DrawsOther(2, tape)

\* The engines that have a callback pending.
Pending(engs) == {k \in 1..Len(engs) : engs[k].pendingId # 0}

\* C12: at most one callback is pending at any time; a callback that runs
\* leaves exactly one callback pending, its own engine's, whether it ticks or
\* not; and it executes one tick if the time since the engine's lastTime is
\* at least the frame duration (50 thirds of a millisecond) and none
\* otherwise.
C12_OneCallbackOneTick ==
  /\ [](Cardinality(Pending(engines)) <= 1)
  /\ [][frames' # frames =>
          \A e \in Pending(engines) :
            /\ Pending(engines') = {e}
            /\ engines'[e].ticks - engines[e].ticks
                 = IF now' - engines[e].lastTime >= 50 THEN 1 ELSE 0
            /\ (flip' # flip) <=> (now' - engines[e].lastTime >= 50)]_vars

\* A callback that came more than three frames after the engine started has
\* executed one tick, and the callback after it none.
C12_Witness ==
  /\ mounted
  /\ frames = 2
  /\ Live.ticks = 1
  /\ Live.lastTime - Live.started >= 3 * frameDuration
  /\ Pending(engines) = {Len(engines)}

\* C20: an engine's lastTime is the time it started at plus a whole number
\* of frame durations and is never later than the latest timestamp, and the
\* ticks it has executed are at most the whole frame durations since it
\* started.
C20_NoDrift ==
  \A e \in 1..Len(engines) :
    engines[e].mode # "none" =>
      /\ (engines[e].lastTime - engines[e].started) % frameDuration = 0
      /\ engines[e].lastTime <= now
      /\ engines[e].ticks <= (now - engines[e].started) \div frameDuration
      /\ engines[e].ticks * frameDuration <= engines[e].lastTime - engines[e].started

\* An engine has executed two ticks, the later one at a timestamp that is not
\* a whole number of frames after its start: the remainder was absorbed.
C20_Witness ==
  /\ mounted
  /\ Live.ticks >= 2
  /\ (now - Live.started) % frameDuration # 0
  /\ Live.lastTime > now - frameDuration
  /\ Live.lastTime < now

\* The particles a tick of the live engine leaves when it runs at timestamp
\* t and reads `tape`.
TickAt(t, tape) ==
  Tick(Live.mode, particles, Live.vortices, width, height, t, tape).ps

\* Two timestamps a quarter of a wind period and a bit apart.
EarlyTime == 0
LateTime == (WindPeriod \div 4) + 30

\* C13, as stated: in every mode a tick that runs at another timestamp, from
\* the same particles and vortices and with the same random draws, leaves
\* the same positions and velocities.
C13_AsStated ==
  mounted => \A tape \in Tapes : TickAt(EarlyTime, tape) = TickAt(LateTime, tape)

\* C13: in the fluid, gravity, chaos and swarm modes a tick that runs at
\* another timestamp, from the same particles and with the same random
\* draws, leaves the same positions and velocities.
C13_TimeFreeModes ==
  (mounted /\ Live.mode # "weather") =>
    \A tape \in Tapes : TickAt(EarlyTime, tape) = TickAt(LateTime, tape)

\* A tick of a mode other than weather has moved a particle, and the next
\* tick would move it again.
C13_Witness ==
  /\ mounted
  /\ Live.mode \in {"fluid", "gravity", "chaos", "swarm"}
  /\ flip = 1
  /\ \E i \in 1..Len(mid) : mid[i] # [vx |-> 0, vy |-> 0]
  /\ \E tape \in Tapes : TickAt(LateTime, tape) # particles

\* C14, as stated: the response to a request has the status of the first
\* stage that fails: missing url 400, malformed or non-web URL 400, fetch
\* timeout 504, other fetch failure or status not ok 502, extraction
\* failure 422, empty text 422, otherwise 200. No stage after it has run
\* (no fetch for a request refused before it, one fetch otherwise), and a
\* 200 response carries a text that is not empty and has at most MAX_CHARS
\* characters.
C14_AsStated ==
  LET srv    == request.server
      stated ==
        IF request.url \in {"null", ""} THEN 400
        ELSE IF request.url \notin {"http://h/", "https://h/a", "HTTP://H/"} THEN 400
        ELSE IF srv.error = "TimeoutError" THEN 504
        ELSE IF srv.error # "none" \/ srv.status \notin 200..299 THEN 502
        ELSE IF ~srv.parses THEN 422
        ELSE IF \A k \in 1..Len(srv.body) : srv.body[k] \in WhiteSpaceCodes THEN 422
        ELSE 200
  IN  response # NoResponse =>
        /\ response.status = stated
        /\ response.fetches = (IF response.status = 400 THEN 0 ELSE 1)
        /\ response.status = 200 =>
             Len(response.text) > 0 /\ Len(response.text) <= MAX_CHARS
        /\ response.status # 200 => response.text = <<>>

\* C15: a step that changes the surface extent (a resize event) changes
\* nothing else: every particle's position and velocity, the particle count,
\* every engine's vortices and clock, and the pending callback stay as they
\* were.
C15_ResizeOnlyExtent ==
  [][(width' # width \/ height' # height) =>
       /\ particles' = particles
       /\ engines' = engines
       /\ animationFrameRef' = animationFrameRef
       /\ mounted' = mounted]_vars

\* C15 witness: a weather run with a pending callback whose surface a resize
\* has made narrower than the position of one of its particles.
C15_Witness ==
  /\ mounted
  /\ Live.mode = "weather"
  /\ Live.pendingId # 0
  /\ \E i \in 1..Len(particles) : particles[i].x > width

Away(p, v) == Hypot(p.x - v.x, p.y - v.y)

\* forceMagnitude as the claim gives it: strength * (1 - d / VORTEX_RADIUS).
StatedMagnitude(p, v) == Mul(v.strength, U - Quot(Away(p, v), VORTEX_RADIUS))

\* The velocity change that vortex v adds to particle p is tangential, has
\* the stated magnitude and turns the way the rotation sign says (all up to
\* the rounding of the grid).
IsTangentialPush(p, v) ==
  LET push == VortexPush(p, v)
      dx   == p.x - v.x
      dy   == p.y - v.y
  IN  /\ Abs(Hypot(push.vx, push.vy) - StatedMagnitude(p, v)) <= 2
      /\ Abs(dx * push.vx + dy * push.vy) <= 2 * Away(p, v)
      /\ StatedMagnitude(p, v) > 2 =>
           v.rotation * (dx * push.vy - dy * push.vx) > 0

\* Vortex v adds nothing to particle p.
NoPush(p, v) == VortexPush(p, v).vx = 0 /\ VortexPush(p, v).vy = 0

\* C17, as stated: in weather mode every vortex at a distance 0 < d <
\* VORTEX_RADIUS from a particle adds a tangential velocity change of
\* magnitude strength * (1 - d / VORTEX_RADIUS) to it, and a vortex at
\* d = 0 or d >= VORTEX_RADIUS adds nothing.
C17_AsStated ==
  Live.mode = "weather" =>
    \A i \in 1..Len(particles), k \in 1..Len(Live.vortices) :
      LET d == Away(particles[i], Live.vortices[k])
      IN  IF 0 < d /\ d < VORTEX_RADIUS
          THEN IsTangentialPush(particles[i], Live.vortices[k])
          ELSE NoPush(particles[i], Live.vortices[k])

\* C17: in weather mode every vortex at a distance 1 < d < VORTEX_RADIUS
\* from a particle adds a tangential velocity change of magnitude
\* strength * (1 - d / VORTEX_RADIUS) to it, and a vortex at d <= 1 or at
\* d >= VORTEX_RADIUS adds nothing.
C17_PushBeyondOne ==
  Live.mode = "weather" =>
    \A i \in 1..Len(particles), k \in 1..Len(Live.vortices) :
      LET d == Away(particles[i], Live.vortices[k])
      IN  IF U < d /\ d < VORTEX_RADIUS
          THEN IsTangentialPush(particles[i], Live.vortices[k])
          ELSE NoPush(particles[i], Live.vortices[k])

\* C17 witness: after a weather tick there are a particle and a vortex at a
\* distance of at most 1 that is not 0, a pair at a distance between 1 and
\* the radius whose push is not zero, and a pair at the radius or beyond.
C17_Witness ==
  /\ Live.mode = "weather"
  /\ Live.ticks >= 1
  /\ \E i \in 1..Len(particles), k \in 1..Len(Live.vortices) :
       LET d == Away(particles[i], Live.vortices[k]) IN 0 < d /\ d <= U
  /\ \E i \in 1..Len(particles), k \in 1..Len(Live.vortices) :
       /\ Away(particles[i], Live.vortices[k]) > U
       /\ Away(particles[i], Live.vortices[k]) < VORTEX_RADIUS
       /\ ~NoPush(particles[i], Live.vortices[k])
  /\ \E i \in 1..Len(particles), k \in 1..Len(Live.vortices) :
       Away(particles[i], Live.vortices[k]) >= VORTEX_RADIUS

\* C18: after every chaos tick each particle lies in [0, width] x
\* [0, height]; and where the moved x (or y) had left that range, the
\* velocity on that axis is the one the tick had there, sign-inverted and
\* multiplied by WALL_BOUNCE_ENERGY, and the other axis has received an
\* impulse of magnitude at most 0.15; an axis that stayed in range is
\* neither inverted nor the cause of an impulse.  (The x edge is handled
\* first, so the vy that a y bounce inverts includes the x bounce's impulse.)
C18_BounceKeepsInside ==
  [][(Ticks /\ Live.mode = "chaos") =>
       \A i \in 1..Len(particles') :
         LET c    == mid'[i]
             x1   == particles[i].x + c.vx
             y1   == particles[i].y + c.vy
             bx   == x1 < 0 \/ x1 > width
             by   == y1 < 0 \/ y1 > height
             vx3  == IF bx THEN Mul(c.vx, -WALL_BOUNCE_ENERGY) ELSE c.vx
             imp2 == particles'[i].vx - vx3
         IN  /\ 0 <= particles'[i].x /\ particles'[i].x <= width
             /\ 0 <= particles'[i].y /\ particles'[i].y <= height
             /\ ~bx => particles'[i].x = x1
             /\ ~by => particles'[i].y = y1
             /\ IF by THEN Abs(imp2) <= 150 ELSE imp2 = 0
             /\ \E imp1 \in (IF bx THEN -150..150 ELSE {0}) :
                  particles'[i].vy =
                    IF by THEN Mul(c.vy + imp1, -WALL_BOUNCE_ENERGY)
                    ELSE c.vy + imp1]_vars

\* C18 witness: a chaos tick has moved a particle beyond the right or left
\* edge and beyond the top or bottom edge: it now lies on both edges, with
\* its horizontal velocity turned round.
C18_Witness ==
  \E i \in 1..Len(mid) :
    /\ Live.mode = "chaos"
    /\ Live.ticks >= 1
    /\ particles[i].x \in {0, width}
    /\ particles[i].y \in {0, height}
    /\ mid[i].vx # 0
    /\ mid[i].vy # 0
    /\ particles[i].vx * mid[i].vx < 0

\* The number of draws a mode makes for a particle in a tick.
DrawCount == IF Live.mode = "swarm" THEN SWARM_NEIGHBORS_TO_CHECK
             ELSE NEIGHBORS_TO_CHECK

\* The draws of particle i, in a tick reading `tape`, that give particle m.
DrawsOf(i, m, tape) ==
  {j \in 1..DrawCount :
     NeighborIndex(Rand(tape, Slot(i, j)), Len(particles)) = m - 1}

\* The draws of particle i that give a particle other than i for which
\* near(_) holds of its distance from i.
DrawsNear(i, tape, near(_)) ==
  UNION {IF m # i /\ near(Hypot(particles[m].x - particles[i].x,
                               particles[m].y - particles[i].y))
         THEN DrawsOf(i, m, tape) ELSE {} : m \in 1..Len(particles)}

\* Within the alignment and the cohesion radius.
Aligns(dist) == dist < ALIGNMENT_RADIUS
Coheres(dist) == dist < COHESION_RADIUS

RECURSIVE PullOfOthers(_, _, _)
\* What the particles m, m + 1, ... other than particle i add to i in a
\* fluid tick reading `tape`: each its own pull, once for each draw that
\* gave it.
PullOfOthers(m, i, tape) ==
  IF m > Len(particles) THEN [vx |-> 0, vy |-> 0]
  ELSE LET n    == IF m = i THEN 0 ELSE Cardinality(DrawsOf(i, m, tape))
           one  == FluidPullOf(particles[i], particles[m],
                               Hypot(particles[m].x - particles[i].x,
                                     particles[m].y - particles[i].y))
           rest == PullOfOthers(m + 1, i, tape)
       IN  [vx |-> n * one.vx + rest.vx, vy |-> n * one.vy + rest.vy]

\* The sum of a fluid neighbour loop is that of the other particles, each
\* counted once for each draw that gave it, and nothing when no draw gave
\* another particle.
FluidCounted(i, tape, others, pull, sum) ==
  /\ pull.vx = sum.vx
  /\ pull.vy = sum.vy
  /\ ~pull.fault
  /\ others = 0 => pull.vx = 0 /\ pull.vy = 0

\* The counts of a swarm neighbour loop are the draws that gave another
\* particle within the radius, and its accumulators are at zero when no
\* draw gave another particle.
SwarmCounted(i, tape, others, smp) ==
  /\ smp.sc = Cardinality(DrawsNear(i, tape, Separates))
  /\ smp.ac = Cardinality(DrawsNear(i, tape, Aligns))
  /\ smp.cc = Cardinality(DrawsNear(i, tape, Coheres))
  /\ smp.cc <= others
  /\ ~smp.fault
  /\ others = 0 => smp = NoSample

\* C19: in fluid and swarm runs every particle draws NEIGHBORS_TO_CHECK (5,
\* in swarm 8) indices of the whole sequence in a tick, with replacement:
\* a particle drawn n times contributes n times.  A draw of the particle's
\* own index contributes nothing and is not replaced, so the contributing
\* draws are at most the configured count, and none when the run has one
\* particle; the sampling raises no fault.
C19_SelfSkipped ==
  Live.mode \in {"fluid", "swarm"} =>
    \A tape \in SamplingTapes, i \in 1..Len(particles) :
      /\ UNION {DrawsOf(i, m, tape) : m \in 1..Len(particles)} = 1..DrawCount
      /\ Len(particles) = 1 => DrawsOf(i, i, tape) = 1..DrawCount
      /\ IF Live.mode = "fluid"
         THEN FluidCounted(i, tape,
                           DrawCount - Cardinality(DrawsOf(i, i, tape)),
                           FluidPullsFrom(1, particles[i], particles, i, tape),
                           PullOfOthers(1, i, tape))
         ELSE SwarmCounted(i, tape,
                           DrawCount - Cardinality(DrawsOf(i, i, tape)),
                           SwarmSamplesFrom(1, particles[i], particles, i, tape))

\* C19 witness: a swarm tick has run on two particles, and under one tape
\* its first particle draws itself at least once and the other particle
\* more than once, each of those draws counted.
C19_Witness ==
  /\ Live.mode = "swarm"
  /\ Live.ticks >= 1
  /\ Len(particles) = 2
  /\ \E tape \in SamplingTapes :
       /\ DrawsOf(1, 1, tape) # {}
       /\ Cardinality(DrawsOf(1, 2, tape)) >= 2
       /\ SwarmSamplesFrom(1, particles[1], particles, 1, tape).ac
            = Cardinality(DrawsOf(1, 2, tape))

\* C21: in every state an engine that is not in weather mode has no
\* vortices and a weather engine has exactly NUM_VORTICES, each with a
\* rotation of +1 or -1 and a strength within 0.8..1.2 times
\* VORTEX_STRENGTH; and no step changes a weather engine's rotations and
\* strengths or the sizes |vx|, |vy| of its vortices' velocities, and a step
\* that moves a vortex leaves it inside [0, width] x [0, height].
C21_VortexSet ==
  /\ [](\A e \in 1..Len(engines) :
          IF engines[e].mode = "weather"
          THEN /\ Len(engines[e].vortices) = NUM_VORTICES
               /\ \A k \in 1..NUM_VORTICES :
                    /\ engines[e].vortices[k].rotation \in {1, -1}
                    /\ engines[e].vortices[k].strength * U >= 800 * VORTEX_STRENGTH
                    /\ engines[e].vortices[k].strength * U <= 1200 * VORTEX_STRENGTH
          ELSE engines[e].vortices = <<>>)
  /\ [][\A e \in 1..Len(engines) :
          (engines[e].mode = "weather" /\ engines'[e].mode = "weather") =>
            \A k \in 1..NUM_VORTICES :
              /\ engines'[e].vortices[k].rotation = engines[e].vortices[k].rotation
              /\ engines'[e].vortices[k].strength = engines[e].vortices[k].strength
              /\ Abs(engines'[e].vortices[k].vx) = Abs(engines[e].vortices[k].vx)
              /\ Abs(engines'[e].vortices[k].vy) = Abs(engines[e].vortices[k].vy)
              /\ engines'[e].vortices[k] # engines[e].vortices[k] =>
                   /\ 0 <= engines'[e].vortices[k].x
                   /\ engines'[e].vortices[k].x <= width'
                   /\ 0 <= engines'[e].vortices[k].y
                   /\ engines'[e].vortices[k].y <= height']_vars

\* C21 witness: a weather engine that followed an engine of another mode has
\* ticked on at least one particle, and one of its vortices lies on the left
\* or the right edge with its velocity turned inward: it has bounced.
C21_Witness ==
  /\ Len(engines) >= 2
  /\ engines[1].mode # "weather"
  /\ Live.mode = "weather"
  /\ Live.ticks >= 1
  /\ Len(particles) >= 1
  /\ \E k \in 1..Len(Live.vortices) :
       \/ Live.vortices[k].x = 0 /\ Live.vortices[k].vx > 0
       \/ Live.vortices[k].x = width /\ Live.vortices[k].vx < 0

====
